---- MODULE Spec2Model ----
(***************************************************************************)
(* VoxelFlow (src/script.js): the voxel store, the gravity step, the       *)
(* persistence of the store and the per-frame gesture state machine.       *)
(*                                                                         *)
(* Units.  World coordinates are integers in thousandths of a world unit   *)
(* (VOXEL_SIZE = 1 is 1000), landmark coordinates are integers in          *)
(* hundredths of the normalised frame (PINCH_THRESHOLD = 0.09 is 9), times *)
(* are milliseconds.  A voxel mesh is identified by its place in the list  *)
(* `voxels`; the index `voxelMap` maps a cell key to that place (0: a mesh *)
(* that is no longer in the list).                                         *)
(***************************************************************************)
EXTENDS Integers, Sequences, FiniteSets, TLC

VARIABLES
    voxels,                 \* the insertion-ordered list of voxel meshes
    voxelMap,               \* cell key -> place of the mesh in voxels
    storage,                \* localStorage['voxel-map']
    activeColor,            \* the colour the next placed voxel gets
    gravityEnabled,         \* CONFIG.GRAVITY_ENABLED
    effects,                \* the sounds, particles and saves of the last handler
    fired,                  \* the placeVoxel / removeVoxel calls of the last handler
    lastOp,                 \* the last handler that ran
    pair,                   \* a placeVoxel(P) call and the removeVoxel(P) call right after it
    stage,                  \* the position in a scripted scenario
    snapshot,               \* the list of voxels when a scripted scenario took it
    now,                    \* performance.now()
    lastVideoTime,          \* the video time of the last processed frame
    detectedHandCount,
    smoothers,              \* the EMA state of each label
    debugPinchState,        \* the pinch of each label as the last hand frame saw it
    isPinching,
    wasPinching,
    blockPlacedThisPinch,
    smoothedGhostPosition,
    ghostPosition,
    ghostVisible,
    dwellStartTime,
    dwellPosition,
    isDwelling,
    dwellProgress,          \* in thousandths
    frameCount,
    lastFpsTime,
    frame,                  \* what the last rendered frame saw: hands, mode, pinch, occupancy
    hold,                   \* the pinch in progress and the actions fired so far
    storageFails,           \* localStorage.setItem throws (quota exceeded, storage denied)
    resetBtn                \* the reset button: its confirming class and its pending timeout

(***************************************************************************)
(* Configuration (CONFIG, src/script.js:30-60)                             *)
(***************************************************************************)
GRID_SIZE == 10
VOXEL_SIZE == 1000
maxHeight == 10
SMOOTHING_ALPHA == 15
GHOST_SMOOTHING == 12
PINCH_THRESHOLD == 9
DWELL_TIME == 1500
DWELL_TOLERANCE == 500
GRAVITY_RATE == 5

(***************************************************************************)
(* Bounds of the model                                                     *)
(***************************************************************************)
MaxVoxels == 3
MaxTime == 2900
MaxTimeTwoHand == 700
MaxTimeDwell == 3000
MaxHold == 30
MaxTimeClamp == 4000
MaxTimeReset == 8000
MaxTimePinch == 3000
MaxTimeMove == 4000
MaxGravitySteps == 4

\* changes of the trigger hand's posture in the two-hand scenario
MaxToggles == 3

Colors == {"c1", "c2"}
Cells ==
    {[x |-> 500, y |-> cy, z |-> 500] : cy \in {500, 1500, 2500}}
    \cup {[x |-> -500, y |-> 500, z |-> 500]}

(***************************************************************************)
(* Vectors and cell keys                                                   *)
(***************************************************************************)
Abs(n) == IF n < 0 THEN -n ELSE n

Vec(px, py, pz) == [x |-> px, y |-> py, z |-> pz]

\* Number.prototype.toFixed(2): the sign and the magnitude rounded to
\* hundredths, halves away from zero ("-0.00" differs from "0.00").
toFixed2(v) == <<v < 0, (Abs(v) + 5) \div 10>>

getVoxelKey(position) ==
    <<toFixed2(position.x), toFixed2(position.y), toFixed2(position.z)>>

MapSet(m, k, v) == [q \in (DOMAIN m) \cup {k} |-> IF q = k THEN v ELSE m[q]]

MapDelete(m, k) == [q \in (DOMAIN m) \ {k} |-> m[q]]

\* voxels.splice(i, 1)
RemoveAt(s, i) == [j \in 1..(Len(s) - 1) |-> IF j < i THEN s[j] ELSE s[j + 1]]

(***************************************************************************)
(* The store and its persistence.  A world w is the record                 *)
(* [voxels, voxelMap, storage, effects, fails, thrown] the functions below *)
(* read and write: fails says that localStorage.setItem throws, thrown     *)
(* that an exception is on its way up the call stack, which skips          *)
(* whatever the callers would have done next.                              *)
(***************************************************************************)
NoStorage == [kind |-> "null", items |-> <<>>]

Emit(w, e) == [w EXCEPT !.effects = Append(@, e)]

\* saveMap that reports a save and writes nothing
saveMapNothing(w) == Emit(w, "save")

saveMap(w) ==
    LET data == [i \in 1..Len(w.voxels) |->
                    [x |-> w.voxels[i].position.x,
                     y |-> w.voxels[i].position.y,
                     z |-> w.voxels[i].position.z,
                     color |-> w.voxels[i].color,
                     ok |-> TRUE]]
    IN  IF w.fails
        THEN Emit([w EXCEPT !.thrown = TRUE], "throw")
        ELSE Emit([w EXCEPT !.storage = [kind |-> "list", items |-> data]], "save")

createVoxelMesh(w, position, color) ==
    [w EXCEPT !.voxels = Append(@, [position |-> position, color |-> color]),
              !.voxelMap = MapSet(@, getVoxelKey(position), Len(w.voxels) + 1)]

\* placeVoxel without its occupancy test.
placeVoxelUnchecked(w, position, color) ==
    saveMap(Emit(Emit(createVoxelMesh(w, position, color), "playPlace"), "spawn"))

placeVoxel(w, position, color) ==
    IF getVoxelKey(position) \in DOMAIN w.voxelMap
    THEN w
    ELSE saveMap(Emit(Emit(createVoxelMesh(w, position, color), "playPlace"), "spawn"))

\* removeVoxel that leaves the key in the index.
removeVoxelKeepsKey(w, position) ==
    LET key == getVoxelKey(position)
    IN  IF key \notin DOMAIN w.voxelMap
        THEN w
        ELSE saveMap([Emit(Emit(w, "spawn"), "playRemove") EXCEPT
                        !.voxels = RemoveAt(@, w.voxelMap[key]),
                        !.voxelMap[key] = 0])

removeVoxel(w, position) ==
    LET key == getVoxelKey(position)
    IN  IF key \notin DOMAIN w.voxelMap
        THEN w
        ELSE LET index == w.voxelMap[key]
                 rest == MapDelete(w.voxelMap, key)
                 w1 == Emit(Emit(w, "spawn"), "playRemove")
             IN  saveMap(
                   IF index = 0
                   THEN [w1 EXCEPT !.voxelMap = rest]
                   ELSE [w1 EXCEPT
                           !.voxels = RemoveAt(@, index),
                           !.voxelMap = [q \in DOMAIN rest |->
                                           IF rest[q] = index THEN 0
                                           ELSE IF rest[q] > index THEN rest[q] - 1
                                           ELSE rest[q]]])

clearScene(w) ==
    LET w1 == saveMap([w EXCEPT !.voxels = <<>>, !.voxelMap = <<>>])
    IN  IF w1.thrown THEN w1 ELSE Emit(w1, "playRemove")

RECURSIVE Rebuild(_, _, _)
\* data.forEach of loadMap: a malformed record throws and ends the rebuild.
Rebuild(w, items, i) ==
    IF i > Len(items) THEN w
    ELSE IF ~items[i].ok THEN Emit(w, "error")
    ELSE Rebuild(createVoxelMesh(w, Vec(items[i].x, items[i].y, items[i].z), items[i].color),
                 items, i + 1)

loadMap(w) ==
    CASE w.storage.kind = "null" -> w
      [] w.storage.kind = "garbage" -> Emit(w, "error")
      [] w.storage.kind = "notlist" ->
            Emit([w EXCEPT !.voxels = <<>>, !.voxelMap = <<>>], "error")
      [] OTHER ->
            Rebuild([w EXCEPT !.voxels = <<>>, !.voxelMap = <<>>], w.storage.items, 1)

(***************************************************************************)
(* Gravity                                                                 *)
(***************************************************************************)
\* A fall that leaves the old key in the index.
GravityVisitKeepsKey(w, i) ==
    LET pos == w.voxels[i].position
        belowKey == getVoxelKey([pos EXCEPT !.y = @ - VOXEL_SIZE])
    IN  IF pos.y <= VOXEL_SIZE \div 2 + 100 THEN w
        ELSE IF belowKey \in DOMAIN w.voxelMap THEN w
        ELSE [w EXCEPT
                !.voxels[i].position.y = @ - VOXEL_SIZE,
                !.voxelMap = MapSet(@, belowKey, i)]

\* A fall that takes the voxel all the way to the ground.
GravityVisitToGround(w, i) ==
    LET pos == w.voxels[i].position
        belowKey == getVoxelKey([pos EXCEPT !.y = @ - VOXEL_SIZE])
        ground == [pos EXCEPT !.y = VOXEL_SIZE \div 2]
    IN  IF pos.y <= VOXEL_SIZE \div 2 + 100 THEN w
        ELSE IF belowKey \in DOMAIN w.voxelMap THEN w
        ELSE [w EXCEPT
                !.voxels[i].position = ground,
                !.voxelMap = MapSet(MapDelete(@, getVoxelKey(pos)), getVoxelKey(ground), i)]

\* A visit that takes the second cell of a column for the ground, too.
GravityVisitGroundTooHigh(w, i) ==
    LET pos == w.voxels[i].position
        belowKey == getVoxelKey([pos EXCEPT !.y = @ - VOXEL_SIZE])
    IN  IF pos.y <= VOXEL_SIZE + VOXEL_SIZE \div 2 + 100 THEN w
        ELSE IF belowKey \in DOMAIN w.voxelMap THEN w
        ELSE [w EXCEPT
                !.voxels[i].position.y = @ - VOXEL_SIZE,
                !.voxelMap = MapSet(MapDelete(@, getVoxelKey(pos)), belowKey, i)]

\* One voxel of the forEach of applyGravity, on the live index.
GravityVisit(w, i) ==
    LET pos == w.voxels[i].position
        belowKey == getVoxelKey([pos EXCEPT !.y = @ - VOXEL_SIZE])
    IN  IF pos.y <= VOXEL_SIZE \div 2 + 100 THEN w
        ELSE IF belowKey \in DOMAIN w.voxelMap THEN w
        ELSE [w EXCEPT
                !.voxels[i].position.y = @ - VOXEL_SIZE,
                !.voxelMap = MapSet(MapDelete(@, getVoxelKey(pos)), belowKey, i)]

RECURSIVE GravityFrom(_, _)
GravityFrom(w, i) ==
    IF i > Len(w.voxels) THEN w ELSE GravityFrom(GravityVisit(w, i), i + 1)

applyGravity(w, enabled) ==
    IF ~enabled THEN w
    ELSE LET w1 == GravityFrom(w, 1)
         IN  IF Len(w1.voxels) > 0 THEN saveMap(w1) ELSE w1

(***************************************************************************)
(* Landmarks.  A hand sample is [label, thumb, index]: the thumb tip and   *)
(* the index finger tip on one axis.                                       *)
(***************************************************************************)
Labels == {"Left", "Right"}

NoMarks == [seen |-> FALSE, thumb |-> 0, index |-> 0]

NoSmoothers == [l \in Labels |-> NoMarks]

\* alpha * lm + (1 - alpha) * prev, rounded to the nearest unit
Ema(cur, prev) == (SMOOTHING_ALPHA * cur + (100 - SMOOTHING_ALPHA) * prev + 50) \div 100

\* applySmoothing that blends the first sample, too
applySmoothingAlwaysBlend(sm, marks, label) ==
    [sm EXCEPT ![label] = [seen |-> TRUE,
                           thumb |-> Ema(marks.thumb, sm[label].thumb),
                           index |-> Ema(marks.index, sm[label].index)]]

applySmoothing(sm, marks, label) ==
    IF ~sm[label].seen
    THEN [sm EXCEPT ![label] = [seen |-> TRUE, thumb |-> marks.thumb, index |-> marks.index]]
    ELSE [sm EXCEPT ![label] = [seen |-> TRUE,
                                thumb |-> Ema(marks.thumb, sm[label].thumb),
                                index |-> Ema(marks.index, sm[label].index)]]

RECURSIVE SmoothAll(_, _, _)
\* the loop over results.landmarks
SmoothAll(sm, sample, i) ==
    IF i > Len(sample) THEN sm
    ELSE SmoothAll(applySmoothing(sm, sample[i], sample[i].label), sample, i + 1)

detectPinch(marks) == marks.seen /\ Abs(marks.thumb - marks.index) < PINCH_THRESHOLD

(***************************************************************************)
(* The cursor.  A ray is what the raycaster returns for the cursor         *)
(* landmark: the nearest voxel hit, else the point on the floor plane,     *)
(* else the unprojected point.                                             *)
(***************************************************************************)
Up == Vec(0, 1000, 0)

RECURSIVE HighestBlockY(_, _, _, _)
\* the scan of the column for i = 0 .. 14; -1 if no cell is occupied
HighestBlockY(vm, gx, gz, i) ==
    IF i < 0 THEN -1
    ELSE LET checkY == i * VOXEL_SIZE + VOXEL_SIZE \div 2
         IN  IF <<toFixed2(gx), toFixed2(checkY), toFixed2(gz)>> \in DOMAIN vm
             THEN checkY
             ELSE HighestBlockY(vm, gx, gz, i - 1)

\* landmarkToWorld without the top edge magnetism
landmarkToWorldNoMagnet(ray, w) ==
    CASE ray.kind = "voxel" ->
            LET hit == w.voxels[ray.index].position
            IN  Vec(hit.x + (ray.normal.x * VOXEL_SIZE) \div 1000,
                    hit.y + (ray.normal.y * VOXEL_SIZE) \div 1000,
                    hit.z + (ray.normal.z * VOXEL_SIZE) \div 1000)
      [] ray.kind = "floor" ->
            LET gx == (ray.x \div VOXEL_SIZE) * VOXEL_SIZE + VOXEL_SIZE \div 2
                gz == (ray.z \div VOXEL_SIZE) * VOXEL_SIZE + VOXEL_SIZE \div 2
                highestBlockY == HighestBlockY(w.voxelMap, gx, gz, 14)
            IN  IF highestBlockY # -1
                THEN Vec(gx, highestBlockY + VOXEL_SIZE, gz)
                ELSE Vec(ray.x, VOXEL_SIZE \div 2, ray.z)
      [] OTHER -> Vec(ray.x, VOXEL_SIZE \div 2, ray.z)

RECURSIVE LowestBlockY(_, _, _, _)
\* a scan of the column that stops at the first occupied cell from the ground
LowestBlockY(vm, gx, gz, i) ==
    IF i > 14 THEN -1
    ELSE LET checkY == i * VOXEL_SIZE + VOXEL_SIZE \div 2
         IN  IF <<toFixed2(gx), toFixed2(checkY), toFixed2(gz)>> \in DOMAIN vm
             THEN checkY
             ELSE LowestBlockY(vm, gx, gz, i + 1)

\* landmarkToWorld that stacks on the lowest occupied cell of the column
landmarkToWorldLowest(ray, w) ==
    CASE ray.kind = "voxel" ->
            LET normal == IF Abs(ray.normal.y) < 900 /\ ray.localY > 300 THEN Up ELSE ray.normal
                hit == w.voxels[ray.index].position
            IN  Vec(hit.x + (normal.x * VOXEL_SIZE) \div 1000,
                    hit.y + (normal.y * VOXEL_SIZE) \div 1000,
                    hit.z + (normal.z * VOXEL_SIZE) \div 1000)
      [] ray.kind = "floor" ->
            LET gx == (ray.x \div VOXEL_SIZE) * VOXEL_SIZE + VOXEL_SIZE \div 2
                gz == (ray.z \div VOXEL_SIZE) * VOXEL_SIZE + VOXEL_SIZE \div 2
                highestBlockY == LowestBlockY(w.voxelMap, gx, gz, 0)
            IN  IF highestBlockY # -1
                THEN Vec(gx, highestBlockY + VOXEL_SIZE, gz)
                ELSE Vec(ray.x, VOXEL_SIZE \div 2, ray.z)
      [] OTHER -> Vec(ray.x, VOXEL_SIZE \div 2, ray.z)

\* src/script.js:571-644, from the raycaster's results on
landmarkToWorld(ray, w) ==
    CASE ray.kind = "voxel" ->
            LET normal == IF Abs(ray.normal.y) < 900 /\ ray.localY > 300 THEN Up ELSE ray.normal
                hit == w.voxels[ray.index].position
            IN  Vec(hit.x + (normal.x * VOXEL_SIZE) \div 1000,
                    hit.y + (normal.y * VOXEL_SIZE) \div 1000,
                    hit.z + (normal.z * VOXEL_SIZE) \div 1000)
      [] ray.kind = "floor" ->
            LET gx == (ray.x \div VOXEL_SIZE) * VOXEL_SIZE + VOXEL_SIZE \div 2
                gz == (ray.z \div VOXEL_SIZE) * VOXEL_SIZE + VOXEL_SIZE \div 2
                highestBlockY == HighestBlockY(w.voxelMap, gx, gz, 14)
            IN  IF highestBlockY # -1
                THEN Vec(gx, highestBlockY + VOXEL_SIZE, gz)
                ELSE Vec(ray.x, VOXEL_SIZE \div 2, ray.z)
      [] OTHER -> Vec(ray.x, VOXEL_SIZE \div 2, ray.z)

Min(a, b) == IF a < b THEN a ELSE b

Max(a, b) == IF a > b THEN a ELSE b

\* snapToGrid that snaps to the far face of the cell instead of its centre
snapToGridToFace(position) ==
    LET size == VOXEL_SIZE
        halfGrid == (GRID_SIZE * VOXEL_SIZE) \div 2
        sx == (position.x \div size) * size + size
        sy == (position.y \div size) * size + size
        sz == (position.z \div size) * size + size
    IN  Vec(Max(-halfGrid + size \div 2, Min(halfGrid - size \div 2, sx)),
            Max(size \div 2, Min(maxHeight * size - size \div 2, sy)),
            Max(-halfGrid + size \div 2, Min(halfGrid - size \div 2, sz)))

\* snapToGrid without its clamp
snapToGridNoClamp(position) ==
    Vec((position.x \div VOXEL_SIZE) * VOXEL_SIZE + VOXEL_SIZE \div 2,
        (position.y \div VOXEL_SIZE) * VOXEL_SIZE + VOXEL_SIZE \div 2,
        (position.z \div VOXEL_SIZE) * VOXEL_SIZE + VOXEL_SIZE \div 2)

snapToGrid(position) ==
    LET size == VOXEL_SIZE
        halfGrid == (GRID_SIZE * VOXEL_SIZE) \div 2
        sx == (position.x \div size) * size + size \div 2
        sy == (position.y \div size) * size + size \div 2
        sz == (position.z \div size) * size + size \div 2
    IN  Vec(Max(-halfGrid + size \div 2, Min(halfGrid - size \div 2, sx)),
            Max(size \div 2, Min(maxHeight * size - size \div 2, sy)),
            Max(-halfGrid + size \div 2, Min(halfGrid - size \div 2, sz)))

\* Vector3.lerp(target, GHOST_SMOOTHING), rounded to the nearest unit
Lerp(a, b) ==
    Vec(a.x + (GHOST_SMOOTHING * (b.x - a.x) + 50) \div 100,
        a.y + (GHOST_SMOOTHING * (b.y - a.y) + 50) \div 100,
        a.z + (GHOST_SMOOTHING * (b.z - a.z) + 50) \div 100)

\* distanceTo(dwellPosition) < DWELL_TOLERANCE
WithinTolerance(a, b) ==
    /\ Abs(a.x - b.x) < DWELL_TOLERANCE
    /\ Abs(a.y - b.y) < DWELL_TOLERANCE
    /\ Abs(a.z - b.z) < DWELL_TOLERANCE
    /\ (a.x - b.x) * (a.x - b.x) + (a.y - b.y) * (a.y - b.y) + (a.z - b.z) * (a.z - b.z)
          < DWELL_TOLERANCE * DWELL_TOLERANCE

FarAway == Vec(9999000, 9999000, 9999000)

(***************************************************************************)
(* The gesture state machine.  g is the record of what updateHandTracking  *)
(* reads and writes; g.w is the world, g.fired the calls it made.          *)
(***************************************************************************)
Fire(g, act, by) ==
    [g EXCEPT
       !.w = IF act = "remove"
             THEN removeVoxel(@, g.ghostPosition)
             ELSE placeVoxel(@, g.ghostPosition, g.activeColor),
       !.fired = Append(@, [act |-> act, pos |-> g.ghostPosition, by |-> by])]

\* TwoHandTrigger without the edge test and the consumed flag
TwoHandTriggerNoLatch(g, triggerHand, isOverExisting) ==
    LET isTriggerPinching == detectPinch(triggerHand)
        g1 == [g EXCEPT !.isDwelling = FALSE]
        g2 == IF isTriggerPinching
              THEN Fire(g1, IF isOverExisting THEN "remove" ELSE "place", "pinch")
              ELSE g1
    IN  [g2 EXCEPT
           !.wasPinching = isTriggerPinching,
           !.isPinching = isTriggerPinching,
           !.examined = TRUE,
           !.pinch = isTriggerPinching]

\* TwoHandTrigger that places whatever the cursor is over
TwoHandTriggerAlwaysPlace(g, triggerHand, isOverExisting) ==
    LET isTriggerPinching == detectPinch(triggerHand)
        g1 == [g EXCEPT !.isDwelling = FALSE]
        g2 == IF isTriggerPinching /\ ~g1.wasPinching /\ ~g1.blockPlacedThisPinch
              THEN Fire([g1 EXCEPT !.blockPlacedThisPinch = TRUE], "place", "pinch")
              ELSE g1
    IN  [g2 EXCEPT
           !.blockPlacedThisPinch = IF ~isTriggerPinching THEN FALSE ELSE @,
           !.wasPinching = isTriggerPinching,
           !.isPinching = isTriggerPinching,
           !.examined = TRUE,
           !.pinch = isTriggerPinching]

\* TwoHandTrigger whose place is tested after the remove instead of being its
\* alternative: the cell a remove has just emptied is filled again
TwoHandTriggerRemoveThenPlace(g, triggerHand, isOverExisting) ==
    LET isTriggerPinching == detectPinch(triggerHand)
        g1 == [g EXCEPT !.isDwelling = FALSE]
        g2 == IF isTriggerPinching /\ ~g1.wasPinching /\ ~g1.blockPlacedThisPinch
              THEN LET armed == [g1 EXCEPT !.blockPlacedThisPinch = TRUE]
                       removed == IF isOverExisting THEN Fire(armed, "remove", "pinch")
                                  ELSE armed
                   IN  Fire(removed, "place", "pinch")
              ELSE g1
    IN  [g2 EXCEPT
           !.blockPlacedThisPinch = IF ~isTriggerPinching THEN FALSE ELSE @,
           !.wasPinching = isTriggerPinching,
           !.isPinching = isTriggerPinching,
           !.examined = TRUE,
           !.pinch = isTriggerPinching]

\* src/script.js:1066-1088
TwoHandTrigger(g, triggerHand, isOverExisting) ==
    LET isTriggerPinching == detectPinch(triggerHand)
        g1 == [g EXCEPT !.isDwelling = FALSE]
        g2 == IF isTriggerPinching /\ ~g1.wasPinching /\ ~g1.blockPlacedThisPinch
              THEN Fire([g1 EXCEPT !.blockPlacedThisPinch = TRUE],
                        IF isOverExisting THEN "remove" ELSE "place", "pinch")
              ELSE g1
    IN  IF g2.w.thrown
        THEN [g2 EXCEPT !.examined = TRUE, !.pinch = isTriggerPinching]
        ELSE [g2 EXCEPT
                !.blockPlacedThisPinch = IF ~isTriggerPinching THEN FALSE ELSE @,
                !.wasPinching = isTriggerPinching,
                !.isPinching = isTriggerPinching,
                !.examined = TRUE,
                !.pinch = isTriggerPinching]

\* DwellToPlace that fires at half the dwell time
DwellToPlaceEarly(g, t) ==
    LET positionStable == WithinTolerance(g.ghostPosition, g.dwellPosition)
    IN  IF positionStable /\ g.isDwelling
        THEN IF 2 * (t - g.dwellStartTime) >= DWELL_TIME
             THEN [Fire(g, "place", "dwell") EXCEPT
                     !.isDwelling = FALSE,
                     !.dwellProgress = 0,
                     !.dwellPosition = FarAway]
             ELSE g
        ELSE IF positionStable /\ ~g.isDwelling
        THEN [g EXCEPT !.isDwelling = TRUE, !.dwellStartTime = t,
                       !.dwellPosition = g.ghostPosition, !.dwellProgress = 0]
        ELSE [g EXCEPT !.isDwelling = FALSE, !.dwellProgress = 0,
                       !.dwellPosition = g.ghostPosition]

\* DwellToPlace that cancels the dwell without moving the anchor
DwellToPlaceNoReanchor(g, t) ==
    LET positionStable == WithinTolerance(g.ghostPosition, g.dwellPosition)
    IN  IF positionStable /\ g.isDwelling
        THEN LET elapsed == t - g.dwellStartTime
                 progress == Min(1000, (elapsed * 1000) \div DWELL_TIME)
                 placed == Fire([g EXCEPT !.dwellProgress = progress], "place", "dwell")
             IN  IF progress >= 1000
                 THEN [placed EXCEPT
                         !.isDwelling = FALSE,
                         !.dwellProgress = 0,
                         !.dwellPosition = FarAway]
                 ELSE [g EXCEPT !.dwellProgress = progress]
        ELSE IF positionStable /\ ~g.isDwelling
        THEN [g EXCEPT
                !.isDwelling = TRUE,
                !.dwellStartTime = t,
                !.dwellPosition = g.ghostPosition,
                !.dwellProgress = 0]
        ELSE [g EXCEPT
                !.isDwelling = FALSE,
                !.dwellProgress = 0]

\* src/script.js:1096-1119
DwellToPlace(g, t) ==
    LET positionStable == WithinTolerance(g.ghostPosition, g.dwellPosition)
    IN  IF positionStable /\ g.isDwelling
        THEN LET elapsed == t - g.dwellStartTime
                 progress == Min(1000, (elapsed * 1000) \div DWELL_TIME)
                 placed == Fire([g EXCEPT !.dwellProgress = progress], "place", "dwell")
             IN  IF progress >= 1000
                 THEN IF placed.w.thrown
                      THEN placed
                      ELSE [placed EXCEPT
                              !.isDwelling = FALSE,
                              !.dwellProgress = 0,
                              !.dwellPosition = FarAway]
                 ELSE [g EXCEPT !.dwellProgress = progress]
        ELSE IF positionStable /\ ~g.isDwelling
        THEN [g EXCEPT
                !.isDwelling = TRUE,
                !.dwellStartTime = t,
                !.dwellPosition = g.ghostPosition,
                !.dwellProgress = 0]
        ELSE [g EXCEPT
                !.isDwelling = FALSE,
                !.dwellProgress = 0,
                !.dwellPosition = g.ghostPosition]

\* PinchToRemove without the edge test and the consumed flag
PinchToRemoveNoLatch(g, cursorHand) ==
    LET isOneHandPinching == detectPinch(cursorHand)
        g1 == [g EXCEPT !.isDwelling = FALSE]
        g2 == IF isOneHandPinching THEN Fire(g1, "remove", "pinch") ELSE g1
    IN  [g2 EXCEPT
           !.wasPinching = isOneHandPinching,
           !.isPinching = isOneHandPinching,
           !.examined = TRUE,
           !.pinch = isOneHandPinching]

\* src/script.js:1120-1133
PinchToRemove(g, cursorHand) ==
    LET isOneHandPinching == detectPinch(cursorHand)
        g1 == [g EXCEPT !.isDwelling = FALSE]
        g2 == IF isOneHandPinching /\ ~g1.wasPinching /\ ~g1.blockPlacedThisPinch
              THEN Fire([g1 EXCEPT !.blockPlacedThisPinch = TRUE], "remove", "pinch")
              ELSE g1
    IN  IF g2.w.thrown
        THEN [g2 EXCEPT !.examined = TRUE, !.pinch = isOneHandPinching]
        ELSE [g2 EXCEPT
                !.blockPlacedThisPinch = IF ~isOneHandPinching THEN FALSE ELSE @,
                !.wasPinching = isOneHandPinching,
                !.isPinching = isOneHandPinching,
                !.examined = TRUE,
                !.pinch = isOneHandPinching]

\* src/script.js:1150-1188, the part that writes state; it is not reached
\* when the trigger logic threw
updateUI(g, t) ==
    IF g.w.thrown THEN g
    ELSE IF t - g.lastFpsTime >= 1000
    THEN [g EXCEPT !.frameCount = 0, !.lastFpsTime = t, !.uiUpdated = TRUE]
    ELSE [g EXCEPT !.frameCount = @ + 1, !.uiUpdated = TRUE]

\* src/script.js:1004-1147: a frame with a new video time
updateHandTracking(g, sample, ray, t) ==
    LET count == Len(sample)
        g0 == [g EXCEPT !.lastVideoTime = t, !.detectedHandCount = count, !.processed = TRUE]
    IN  IF count > 0
        THEN LET sm == SmoothAll(g.smoothers, sample, 1)
                 present == {sample[i].label : i \in 1..count}
                 cursorHand == IF "Right" \in present THEN sm["Right"] ELSE sm["Left"]
                 hasTrigger == count >= 2 /\ "Left" \in present
                 worldPos == landmarkToWorld(ray, g.w)
                 smoothed == Lerp(g.smoothedGhostPosition, snapToGrid(worldPos))
                 ghost == snapToGrid(smoothed)
                 isOverExisting == getVoxelKey(ghost) \in DOMAIN g.w.voxelMap
                 g1 == [g0 EXCEPT
                          !.smoothers = sm,
                          !.smoothedGhostPosition = smoothed,
                          !.ghostPosition = ghost,
                          !.ghostVisible = TRUE,
                          !.over = isOverExisting,
                          !.debugPinchState =
                              [l \in Labels |-> l \in present /\ detectPinch(sm[l])],
                          !.mode = IF hasTrigger THEN "two" ELSE "one"]
             IN  updateUI(IF hasTrigger
                          THEN TwoHandTrigger(g1, sm["Left"], isOverExisting)
                          ELSE IF ~isOverExisting
                          THEN DwellToPlace(g1, t)
                          ELSE PinchToRemove(g1, cursorHand), t)
        ELSE updateUI([g0 EXCEPT
                         !.ghostVisible = FALSE,
                         !.isPinching = FALSE,
                         !.wasPinching = FALSE,
                         !.blockPlacedThisPinch = FALSE,
                         !.smoothers = NoSmoothers,
                         !.mode = "none"], t)

\* animate whose tracking pass ignores the video time
animateAlways(g, fresh, sample, ray, t) ==
    LET g1 == updateHandTracking(g, sample, ray, t)
    IN  IF g1.frameCount % GRAVITY_RATE = 0
        THEN [g1 EXCEPT !.w = applyGravity(@, g1.gravityEnabled), !.gravityRan = TRUE]
        ELSE g1

\* src/script.js:1194-1213: one rendered frame.  fresh: the video has a new
\* time (and the tracker is ready); otherwise updateHandTracking returns at once.
animate(g, fresh, sample, ray, t) ==
    LET g1 == IF fresh THEN updateHandTracking(g, sample, ray, t) ELSE g
    IN  IF g1.w.thrown THEN g1
        ELSE IF g1.frameCount % GRAVITY_RATE = 0
        THEN [g1 EXCEPT !.w = applyGravity(@, g1.gravityEnabled), !.gravityRan = TRUE]
        ELSE g1

(***************************************************************************)
(* State                                                                   *)
(***************************************************************************)
World ==
    [voxels |-> voxels, voxelMap |-> voxelMap, storage |-> storage, effects |-> <<>>,
     fails |-> storageFails, thrown |-> FALSE]

\* "uncaught": the handler ended with an exception that nothing caught
SetWorld(w) ==
    /\ voxels' = w.voxels
    /\ voxelMap' = w.voxelMap
    /\ storage' = w.storage
    /\ effects' = IF w.thrown THEN Append(w.effects, "uncaught") ELSE w.effects

trackVars == <<now, lastVideoTime, detectedHandCount, smoothers, debugPinchState,
               isPinching, wasPinching,
               blockPlacedThisPinch, smoothedGhostPosition, ghostPosition, ghostVisible,
               dwellStartTime, dwellPosition, isDwelling, dwellProgress, frameCount,
               lastFpsTime, frame, hold>>

vars == <<voxels, voxelMap, storage, activeColor, gravityEnabled, effects, fired, lastOp,
          pair, stage, snapshot, trackVars, storageFails, resetBtn>>

NoFrame == [processed |-> FALSE, hands |-> 0, mode |-> "none", examined |-> FALSE,
            pinch |-> FALSE, over |-> FALSE, gravityRan |-> FALSE, uiUpdated |-> FALSE,
            fresh |-> FALSE]

NoHold == [len |-> 0, fired |-> <<>>, free |-> FALSE, holds |-> 0, total |-> 0, prev |-> 0]

NoPair == [stage |-> "none", pos |-> Vec(0, 0, 0), n |-> 0, len |-> 0,
           free |-> FALSE, again |-> FALSE]

\* the button as the page loads it: not confirming, no timeout pending
NoReset == [confirming |-> FALSE, due |-> -1, since |-> 0]

Init ==
    /\ voxels = <<>>
    /\ voxelMap = <<>>
    /\ storage = NoStorage
    /\ activeColor = "c1"
    /\ gravityEnabled = FALSE
    /\ effects = <<>>
    /\ fired = <<>>
    /\ lastOp = [op |-> "init"]
    /\ pair = NoPair
    /\ stage = 0
    /\ snapshot = <<>>
    /\ now = 0
    /\ lastVideoTime = -1
    /\ detectedHandCount = 0
    /\ smoothers = NoSmoothers
    /\ debugPinchState = [l \in Labels |-> FALSE]
    /\ isPinching = FALSE
    /\ wasPinching = FALSE
    /\ blockPlacedThisPinch = FALSE
    /\ smoothedGhostPosition = Vec(0, 500, 0)
    /\ ghostPosition = Vec(0, 0, 0)
    /\ ghostVisible = FALSE
    /\ dwellStartTime = 0
    /\ dwellPosition = Vec(0, 0, 0)
    /\ isDwelling = FALSE
    /\ dwellProgress = 0
    /\ frameCount = 0
    /\ lastFpsTime = 0
    /\ frame = NoFrame
    /\ hold = NoHold
    /\ storageFails = FALSE
    /\ resetBtn = NoReset

(***************************************************************************)
(* The store's operations called one at a time                             *)
(***************************************************************************)
PlaceVoxelCall(p) ==
    /\ Len(voxels) < MaxVoxels
    /\ SetWorld(placeVoxel(World, p, activeColor))
    /\ fired' = <<>>
    /\ lastOp' = [op |-> "placeVoxel"]
    /\ pair' = [stage |-> "placed", pos |-> p,
                n |-> Cardinality(DOMAIN voxelMap), len |-> Len(voxels),
                free |-> getVoxelKey(p) \notin DOMAIN voxelMap,
                again |-> pair.stage = "placed" /\ pair.pos = p]
    /\ UNCHANGED <<activeColor, gravityEnabled, trackVars, storageFails, resetBtn>>

RemoveVoxelCall(p) ==
    /\ SetWorld(removeVoxel(World, p))
    /\ fired' = <<>>
    /\ lastOp' = [op |-> "removeVoxel"]
    /\ pair' = IF pair.stage = "placed" /\ pair.pos = p
               THEN [pair EXCEPT !.stage = "removed"]
               ELSE NoPair
    /\ UNCHANGED <<activeColor, gravityEnabled, trackVars, storageFails, resetBtn>>

ClearSceneCall ==
    /\ SetWorld(clearScene(World))
    /\ fired' = <<>>
    /\ lastOp' = [op |-> "clearScene"]
    /\ pair' = NoPair
    /\ UNCHANGED <<activeColor, gravityEnabled, trackVars, storageFails, resetBtn>>

ApplyGravityCall ==
    /\ SetWorld(applyGravity(World, gravityEnabled))
    /\ fired' = <<>>
    /\ lastOp' = [op |-> "applyGravity"]
    /\ pair' = NoPair
    /\ UNCHANGED <<activeColor, gravityEnabled, trackVars, storageFails, resetBtn>>

LoadMapCall ==
    /\ SetWorld(loadMap(World))
    /\ fired' = <<>>
    /\ lastOp' = [op |-> "loadMap"]
    /\ pair' = NoPair
    /\ UNCHANGED <<activeColor, gravityEnabled, trackVars, storageFails, resetBtn>>

ColorClick(c) ==
    /\ activeColor' = c
    /\ effects' = <<>>
    /\ fired' = <<>>
    /\ lastOp' = [op |-> "color"]
    /\ pair' = NoPair
    /\ UNCHANGED <<voxels, voxelMap, storage, gravityEnabled, trackVars, storageFails, resetBtn>>

GravityToggle(b) ==
    /\ gravityEnabled' = b
    /\ effects' = <<>>
    /\ fired' = <<>>
    /\ lastOp' = [op |-> "gravityToggle"]
    /\ pair' = NoPair
    /\ UNCHANGED <<voxels, voxelMap, storage, activeColor, trackVars, storageFails, resetBtn>>

(***************************************************************************)
(* The rendered frame                                                      *)
(***************************************************************************)
Tracker ==
    [w |-> World, fired |-> <<>>, activeColor |-> activeColor,
     gravityEnabled |-> gravityEnabled,
     lastVideoTime |-> lastVideoTime, detectedHandCount |-> detectedHandCount,
     smoothers |-> smoothers, debugPinchState |-> debugPinchState,
     isPinching |-> isPinching, wasPinching |-> wasPinching,
     blockPlacedThisPinch |-> blockPlacedThisPinch,
     smoothedGhostPosition |-> smoothedGhostPosition, ghostPosition |-> ghostPosition,
     ghostVisible |-> ghostVisible, dwellStartTime |-> dwellStartTime,
     dwellPosition |-> dwellPosition, isDwelling |-> isDwelling,
     dwellProgress |-> dwellProgress, frameCount |-> frameCount,
     lastFpsTime |-> lastFpsTime,
     processed |-> FALSE, mode |-> "none", examined |-> FALSE, pinch |-> FALSE,
     over |-> FALSE, gravityRan |-> FALSE, uiUpdated |-> FALSE]

\* The pinch in progress: it lasts while every frame that examines the pinch
\* detects it, and ends with a frame that detects the release or no hand.
NextHold(g) ==
    LET byPinch == SelectSeq(g.fired, LAMBDA f : f.by = "pinch")
        acts == [i \in 1..Len(byPinch) |-> byPinch[i].act]
        total == hold.total + Len(g.fired)
    IN  IF ~g.processed THEN hold
        ELSE IF g.mode = "none" \/ (g.examined /\ ~g.pinch)
        THEN [hold EXCEPT !.len = 0, !.fired = <<>>, !.free = FALSE, !.total = total,
                          !.prev = IF hold.len > 0 THEN hold.len ELSE @]
        ELSE IF g.examined /\ hold.len = 0
        THEN [len |-> 1, fired |-> acts, free |-> ~g.over,
              holds |-> hold.holds + 1, total |-> total, prev |-> hold.prev]
        ELSE IF g.examined
        THEN [hold EXCEPT !.len = Min(@ + 1, MaxHold), !.fired = @ \o acts, !.total = total]
        ELSE [hold EXCEPT !.total = total]

Animate(dt, fresh, sample, ray, limit) ==
    /\ now + dt <= limit
    /\ ray.kind = "voxel" => ray.index \in 1..Len(voxels)
    /\ Len(voxels) < MaxVoxels
    /\ \E g \in {animate(Tracker, fresh, sample, ray, now + dt)} :
           /\ SetWorld(g.w)
           /\ fired' = g.fired
           /\ now' = now + dt
           /\ lastVideoTime' = g.lastVideoTime
           /\ detectedHandCount' = g.detectedHandCount
           /\ smoothers' = g.smoothers
           /\ debugPinchState' = g.debugPinchState
           /\ isPinching' = g.isPinching
           /\ wasPinching' = g.wasPinching
           /\ blockPlacedThisPinch' = g.blockPlacedThisPinch
           /\ smoothedGhostPosition' = g.smoothedGhostPosition
           /\ ghostPosition' = g.ghostPosition
           /\ ghostVisible' = g.ghostVisible
           /\ dwellStartTime' = g.dwellStartTime
           /\ dwellPosition' = g.dwellPosition
           /\ isDwelling' = g.isDwelling
           /\ dwellProgress' = g.dwellProgress
           /\ frameCount' = g.frameCount
           /\ lastFpsTime' = g.lastFpsTime
           /\ frame' = [processed |-> g.processed, hands |-> g.detectedHandCount,
                        mode |-> g.mode, examined |-> g.examined, pinch |-> g.pinch,
                        over |-> g.over, gravityRan |-> g.gravityRan,
                        uiUpdated |-> g.uiUpdated, fresh |-> fresh]
           /\ hold' = NextHold(g)
    /\ lastOp' = [op |-> "animate"]
    /\ pair' = NoPair
    /\ UNCHANGED <<activeColor, gravityEnabled, storageFails, resetBtn>>

\* Another writer of localStorage (an earlier session, another tab, the user).
StorageWrite(data) ==
    /\ storage' = data
    /\ effects' = <<>>
    /\ fired' = <<>>
    /\ lastOp' = [op |-> "storageWrite"]
    /\ pair' = NoPair
    /\ UNCHANGED <<voxels, voxelMap, activeColor, gravityEnabled, trackVars, storageFails, resetBtn>>

\* localStorage starts or stops refusing writes (the quota is reached, the
\* user frees or denies storage).
SetItemFails(b) ==
    /\ storageFails' = b
    /\ effects' = <<>>
    /\ fired' = <<>>
    /\ lastOp' = [op |-> "setItemFails"]
    /\ pair' = NoPair
    /\ UNCHANGED <<voxels, voxelMap, storage, activeColor, gravityEnabled, trackVars,
                   resetBtn>>

\* src/script.js:451-470: a click on the reset button.  The second click of a
\* confirmation clears the scene and cancels the timeout; a first click arms
\* the button and sets a timeout of 3000 ms.  since keeps the time of the
\* first click.
ResetClick ==
    /\ IF resetBtn.confirming
       THEN \E w \in {clearScene(World)} :
               /\ SetWorld(w)
               /\ resetBtn' = IF w.thrown THEN resetBtn
                              ELSE [resetBtn EXCEPT !.confirming = FALSE, !.due = -1]
       ELSE /\ resetBtn' = [confirming |-> TRUE, due |-> now + 3000, since |-> now]
            /\ effects' = <<>>
            /\ UNCHANGED <<voxels, voxelMap, storage>>
    /\ fired' = <<>>
    /\ lastOp' = [op |-> "resetClick", cleared |-> resetBtn.confirming]
    /\ pair' = NoPair
    /\ UNCHANGED <<activeColor, gravityEnabled, trackVars, storageFails>>

\* src/script.js:464-467: the callback of the timeout.  setTimeout runs it
\* once the delay has passed and the event loop gets to it: at the time it is
\* due or later, never earlier.
ResetTimeout ==
    /\ resetBtn.due # -1
    /\ now >= resetBtn.due
    /\ resetBtn' = [resetBtn EXCEPT !.confirming = FALSE, !.due = -1]
    /\ effects' = <<>>
    /\ fired' = <<>>
    /\ lastOp' = [op |-> "resetTimeout"]
    /\ pair' = NoPair
    /\ UNCHANGED <<voxels, voxelMap, storage, activeColor, gravityEnabled, trackVars,
                   storageFails>>

\* time passes between two tasks of the event loop
Tick(dt, limit) ==
    /\ now + dt <= limit
    /\ now' = now + dt
    /\ effects' = <<>>
    /\ fired' = <<>>
    /\ lastOp' = [op |-> "tick"]
    /\ pair' = NoPair
    /\ UNCHANGED <<voxels, voxelMap, storage, activeColor, gravityEnabled, lastVideoTime,
                   detectedHandCount, smoothers, debugPinchState, isPinching, wasPinching,
                   blockPlacedThisPinch, smoothedGhostPosition, ghostPosition, ghostVisible,
                   dwellStartTime, dwellPosition, isDwelling, dwellProgress, frameCount,
                   lastFpsTime, frame, hold, storageFails, resetBtn>>

scriptVars == <<stage, snapshot>>

StoreNext ==
    \/ \E p \in Cells : PlaceVoxelCall(p) /\ UNCHANGED scriptVars
    \/ \E p \in Cells : RemoveVoxelCall(p) /\ UNCHANGED scriptVars
    \/ ClearSceneCall /\ UNCHANGED scriptVars
    \/ ApplyGravityCall /\ UNCHANGED scriptVars
    \/ LoadMapCall /\ UNCHANGED scriptVars
    \/ \E c \in Colors : ColorClick(c) /\ UNCHANGED scriptVars
    \/ \E b \in BOOLEAN : GravityToggle(b) /\ UNCHANGED scriptVars

\* The store as this program alone writes and reloads it.
SpecStore == Init /\ [][StoreNext]_vars

(***************************************************************************)
(* The store with persisted data of any origin                             *)
(***************************************************************************)
Record(p, c) == [x |-> p.x, y |-> p.y, z |-> p.z, color |-> c, ok |-> TRUE]

Malformed == [x |-> 0, y |-> 0, z |-> 0, color |-> "c1", ok |-> FALSE]

\* Persisted data this program did not write: unparseable, not a list, a
\* list whose second record repeats the cell of the first (0.504 and 0.5 both
\* give the key "0.50"), lists with a malformed record.
ExternalData ==
    { [kind |-> "garbage", items |-> <<>>],
      [kind |-> "notlist", items |-> <<>>],
      [kind |-> "list", items |->
          <<Record(Vec(500, 500, 500), "c1"), Record(Vec(500, 504, 500), "c2")>>],
      [kind |-> "list", items |->
          <<Record(Vec(500, 1500, 500), "c2"), Malformed, Record(Vec(500, 500, 500), "c1")>>],
      [kind |-> "list", items |-> <<Malformed>>] }

LoadNext ==
    \/ StoreNext
    \/ \E data \in ExternalData : StorageWrite(data) /\ UNCHANGED scriptVars

SpecLoad == Init /\ [][LoadNext]_vars

(***************************************************************************)
(* A column of three, its bottom voxel removed, two gravity steps          *)
(***************************************************************************)
Column == {c \in Cells : c.x = 500}

Bottom == Vec(500, 500, 500)

CascadeNext ==
    \/ /\ stage < 3
       /\ \E p \in Column :
            /\ getVoxelKey(p) \notin DOMAIN voxelMap
            /\ PlaceVoxelCall(p)
       /\ stage' = stage + 1
       /\ snapshot' = IF stage = 2 THEN voxels' ELSE snapshot
    \/ /\ stage < 3
       /\ \E c \in Colors : ColorClick(c)
       /\ UNCHANGED scriptVars
    \/ /\ stage = 3
       /\ GravityToggle(TRUE)
       /\ stage' = 4
       /\ UNCHANGED snapshot
    \/ /\ stage = 4
       /\ RemoveVoxelCall(Bottom)
       /\ stage' = 5
       /\ UNCHANGED snapshot
    \/ /\ stage \in {5, 6}
       /\ ApplyGravityCall
       /\ stage' = stage + 1
       /\ UNCHANGED snapshot

SpecCascade == Init /\ [][CascadeNext]_vars

(***************************************************************************)
(* What the camera and the raycaster deliver                               *)
(***************************************************************************)
\* a hand with the thumb tip on the index tip (pinched) or away from it
Hand(label, pinched) ==
    [label |-> label, thumb |-> IF pinched THEN 20 ELSE 32, index |-> 20]

\* no hand; one hand; a Right and a Left hand; two hands both reported as Right
Samples ==
    {<<>>, <<Hand("Right", FALSE)>>, <<Hand("Left", FALSE)>>, <<Hand("Left", TRUE)>>,
     <<Hand("Right", FALSE), Hand("Left", FALSE)>>,
     <<Hand("Right", FALSE), Hand("Left", TRUE)>>,
     <<Hand("Right", FALSE), Hand("Right", FALSE)>>}

FloorRay == [kind |-> "floor", x |-> 500, z |-> 500]

\* the floor point, or the top face of a voxel
Rays ==
    {FloorRay} \cup {[kind |-> "voxel", index |-> i, normal |-> Up, localY |-> 500] :
                        i \in 1..Len(voxels)}

\* Any frames, any hands, the toolbar in between.
Next ==
    \/ \E sample \in Samples, ray \in Rays :
          Animate(500, TRUE, sample, ray, MaxTime) /\ UNCHANGED scriptVars
    \/ Animate(500, FALSE, <<>>, FloorRay, MaxTime) /\ UNCHANGED scriptVars
    \/ \E c \in Colors : ColorClick(c) /\ UNCHANGED scriptVars
    \/ \E b \in BOOLEAN : GravityToggle(b) /\ UNCHANGED scriptVars

Spec == Init /\ [][Next]_vars

\* Two-hand mode: a Right cursor hand that stays open and a Left trigger hand
\* in every frame, the cursor on one floor point.  stage counts the changes of
\* the trigger hand's posture: open, pinched, open, pinched.
TwoHandNext ==
    \E toggle \in BOOLEAN :
        /\ toggle => stage < MaxToggles
        /\ stage' = IF toggle THEN stage + 1 ELSE stage
        /\ Animate(16, TRUE, <<Hand("Right", FALSE), Hand("Left", stage' % 2 = 1)>>,
                   FloorRay, MaxTimeTwoHand)
        /\ UNCHANGED snapshot

SpecTwoHand == Init /\ [][TwoHandNext]_vars

\* One-hand mode: one open hand in every processed frame, the cursor on one
\* floor point, frames at either of two cadences.
DwellNext ==
    \E dt \in {200, 300}, fresh \in BOOLEAN :
        Animate(dt, fresh, <<Hand("Right", FALSE)>>, FloorRay, MaxTimeDwell)
            /\ UNCHANGED scriptVars

SpecDwell == Init /\ [][DwellNext]_vars

\* Frames, the confirmed reset button and the gravity toggle while
\* localStorage may refuse writes.
QuotaNext ==
    \/ \E sample \in {<<Hand("Right", FALSE)>>,
                       <<Hand("Right", FALSE), Hand("Left", FALSE)>>,
                       <<Hand("Right", FALSE), Hand("Left", TRUE)>>} :
          Animate(500, TRUE, sample, FloorRay, MaxTime) /\ UNCHANGED scriptVars
    \/ ClearSceneCall /\ UNCHANGED scriptVars
    \/ \E b \in BOOLEAN : GravityToggle(b) /\ UNCHANGED scriptVars
    \/ \E b \in BOOLEAN : SetItemFails(b) /\ UNCHANGED scriptVars

SpecQuota == Init /\ [][QuotaNext]_vars

\* Processed frames in which the Right hand, too, is open or pinched; snapshot
\* keeps what the camera delivered.
RolesNext ==
    \E sample \in {<<>>, <<Hand("Right", FALSE)>>, <<Hand("Right", TRUE)>>,
                    <<Hand("Right", FALSE), Hand("Left", FALSE)>>,
                    <<Hand("Right", FALSE), Hand("Left", TRUE)>>,
                    <<Hand("Right", TRUE), Hand("Left", FALSE)>>,
                    <<Hand("Right", TRUE), Hand("Left", TRUE)>>} :
        /\ Animate(500, TRUE, sample, FloorRay, MaxTime)
        /\ snapshot' = sample
        /\ UNCHANGED stage

SpecRoles == Init /\ [][RolesNext]_vars

\* points the cursor ray can resolve to: inside the grid, on its edge, far
\* outside it, on the floor plane or unprojected
ClampRays ==
    {[kind |-> k, x |-> px, z |-> pz] :
        k \in {"floor", "none"},
        px \in {-20000, 4999, 5000, 20000},
        pz \in {-20000, 500}}

\* One open hand whose cursor stays on one point; the first frame chooses the
\* point and snapshot keeps it.
ClampNext ==
    \E ray \in ClampRays :
        /\ stage = 0 \/ ray = snapshot
        /\ stage' = 1
        /\ snapshot' = ray
        /\ Animate(100, TRUE, <<Hand("Right", FALSE)>>, ray, MaxTimeClamp)

SpecClamp == Init /\ [][ClampNext]_vars

\* positions inside cells, on cell boundaries, on and beyond the edges of the
\* grid, below the floor and above the maximum height
SnapInputs ==
    {Vec(px, py, pz) :
        px \in {-20000, -5000, -4501, -4500, -1000, -1, 0, 999, 1000, 4500, 4999, 5000, 20000},
        py \in {-3000, -1, 0, 499, 500, 1000, 1999, 2500, 5400, 9000, 9500, 9999, 10000,
                30000},
        pz \in {-20000, -1, 0, 4000}}

\* snapToGrid applied to an input, then to its own result
SnapNext ==
    /\ stage < 2
    /\ \E p \in SnapInputs :
          snapshot' = snapToGrid(IF stage = 0 THEN p ELSE snapshot)
    /\ stage' = stage + 1
    /\ UNCHANGED <<voxels, voxelMap, storage, activeColor, gravityEnabled, effects, fired,
                   lastOp, pair, trackVars, storageFails, resetBtn>>

SpecSnap == Init /\ [][SnapNext]_vars

\* The reset button: voxels are placed, the button is clicked, the timeout
\* runs, time passes.
ResetNext ==
    \/ \E p \in Column : PlaceVoxelCall(p) /\ UNCHANGED scriptVars
    \/ ResetClick /\ UNCHANGED scriptVars
    \/ ResetTimeout /\ UNCHANGED scriptVars
    \/ Tick(1000, MaxTimeReset) /\ UNCHANGED scriptVars

SpecReset == Init /\ [][ResetNext]_vars

\* raw landmarks of one hand: the thumb tip and the index tip anywhere on the
\* axis of the frame
RawMarks ==
    {[label |-> "Right", thumb |-> t, index |-> i] :
        t \in {0, 3, 20, 50, 100}, i \in {0, 19, 20, 47, 100}}

\* applySmoothing(marks, label) called by itself
SmoothCall(marks) ==
    /\ smoothers' = applySmoothing(smoothers, marks, marks.label)
    /\ effects' = <<>>
    /\ fired' = <<>>
    /\ lastOp' = [op |-> "applySmoothing"]
    /\ pair' = NoPair
    /\ UNCHANGED <<voxels, voxelMap, storage, activeColor, gravityEnabled, now,
                   lastVideoTime, detectedHandCount, debugPinchState, isPinching,
                   wasPinching, blockPlacedThisPinch, smoothedGhostPosition, ghostPosition,
                   ghostVisible, dwellStartTime, dwellPosition, isDwelling, dwellProgress,
                   frameCount, lastFpsTime, frame, hold, storageFails, resetBtn>>

\* A first sample, then one raw sample fed again and again; snapshot keeps the
\* sample of the last call.
SmoothNext ==
    \E marks \in RawMarks :
        /\ stage >= 2 => marks = snapshot
        /\ SmoothCall(marks)
        /\ stage' = IF stage < 2 THEN stage + 1 ELSE stage
        /\ snapshot' = marks

SpecSmooth == Init /\ [][SmoothNext]_vars

\* Processed frames in which open hands come and go over one floor point;
\* snapshot keeps the time of the last frame that saw one hand right after a
\* frame with another number of hands.
HandsNext ==
    \E sample \in {<<>>, <<Hand("Right", FALSE)>>,
                    <<Hand("Right", FALSE), Hand("Left", FALSE)>>,
                    <<Hand("Right", FALSE), Hand("Right", FALSE)>>} :
        /\ Animate(500, TRUE, sample, FloorRay, MaxTime)
        /\ snapshot' = IF Len(sample) = 1 /\ detectedHandCount # 1
                       THEN now + 500
                       ELSE snapshot
        /\ UNCHANGED stage

SpecHands == Init /\ [][HandsNext]_vars

\* One hand, open or pinched, or no hand, in processed frames over one floor
\* point, long enough for the dwell timer to place and one frame more.
PinchNext ==
    \E sample \in {<<>>, <<Hand("Right", FALSE)>>, <<Hand("Right", TRUE)>>} :
        Animate(500, TRUE, sample, FloorRay, MaxTimePinch) /\ UNCHANGED scriptVars

SpecPinch == Init /\ [][PinchNext]_vars

\* One open hand in every processed frame, the cursor ray on the one or the
\* other of two neighbouring floor cells: the ghost follows it across the
\* boundary of the cells with the lag of its smoothing.
MoveNext ==
    \E px \in {-500, 500} :
        Animate(500, TRUE, <<Hand("Right", FALSE)>>, [kind |-> "floor", x |-> px, z |-> 500],
                MaxTimeMove)
            /\ UNCHANGED scriptVars

SpecMove == Init /\ [][MoveNext]_vars

\* A store is built with gravity off, from places, removes and loads of
\* persisted data of any origin; then gravity is switched on and nothing runs
\* but the gravity step, as animate calls it again and again.  snapshot keeps
\* the list as it was when gravity was switched on, stage - 1 is the number
\* of gravity steps since.
GravityStep ==
    /\ stage \in 1..MaxGravitySteps
    /\ ApplyGravityCall
    /\ stage' = stage + 1
    /\ UNCHANGED snapshot

SettleNext ==
    \/ stage = 0 /\ (\E p \in Cells : PlaceVoxelCall(p)) /\ UNCHANGED scriptVars
    \/ stage = 0 /\ (\E p \in Cells : RemoveVoxelCall(p)) /\ UNCHANGED scriptVars
    \/ stage = 0 /\ (\E data \in ExternalData : StorageWrite(data)) /\ UNCHANGED scriptVars
    \/ stage = 0 /\ LoadMapCall /\ UNCHANGED scriptVars
    \/ stage = 0 /\ GravityToggle(TRUE) /\ stage' = 1 /\ snapshot' = voxels
    \/ GravityStep

SpecSettle == Init /\ [][SettleNext]_vars

\* What the raycaster can return for a scene: a hit on a side face of a voxel at
\* a local height from the bottom edge to the top edge, on its top or its
\* bottom face, or a point of the floor plane in a column with or without
\* voxels.
SideNormals == {Vec(1000, 0, 0), Vec(-1000, 0, 0), Vec(0, 0, 1000), Vec(0, 0, -1000)}

AimRays ==
    {[kind |-> "voxel", index |-> i, normal |-> n, localY |-> ly] :
        i \in 1..Len(voxels), n \in SideNormals, ly \in {-490, 0, 300, 301, 490}}
    \cup {[kind |-> "voxel", index |-> i, normal |-> Up, localY |-> 490] :
              i \in 1..Len(voxels)}
    \cup {[kind |-> "voxel", index |-> i, normal |-> Vec(0, -1000, 0), localY |-> -490] :
              i \in 1..Len(voxels)}
    \cup {[kind |-> "floor", x |-> px, z |-> pz] :
              px \in {-700, 250, 1700}, pz \in {300, 1300}}

\* landmarkToWorld on one ray; snapshot keeps the ray and the candidate position
Aim(ray) ==
    /\ snapshot' = [ray |-> ray, pos |-> landmarkToWorld(ray, World)]
    /\ stage' = 1
    /\ effects' = <<>>
    /\ fired' = <<>>
    /\ lastOp' = [op |-> "landmarkToWorld"]
    /\ pair' = NoPair
    /\ UNCHANGED <<voxels, voxelMap, storage, activeColor, gravityEnabled, trackVars,
                   storageFails, resetBtn>>

\* A scene is built, then the cursor ray is resolved against it.
AimNext ==
    \/ /\ stage = 0
       /\ \E p \in Cells : PlaceVoxelCall(p)
       /\ UNCHANGED scriptVars
    \/ \E ray \in AimRays : Aim(ray)

SpecAim == Init /\ [][AimNext]_vars

(***************************************************************************)
(* Properties                                                              *)
(***************************************************************************)
Occupied(p) == getVoxelKey(p) \in DOMAIN voxelMap

VoxelsAt(p) == {i \in 1..Len(voxels) : getVoxelKey(voxels[i].position) = getVoxelKey(p)}

Below(p) == [p EXCEPT !.y = @ - VOXEL_SIZE]

\* C1: no two voxels of the list share a cell key, and the list and the index
\* hold exactly the same voxels, each under its own cell key.
C1_StoreConsistent ==
    /\ \A i, j \in 1..Len(voxels) :
          i # j => getVoxelKey(voxels[i].position) # getVoxelKey(voxels[j].position)
    /\ {voxelMap[k] : k \in DOMAIN voxelMap} = 1..Len(voxels)
    /\ \A k \in DOMAIN voxelMap :
          voxelMap[k] \in 1..Len(voxels) => getVoxelKey(voxels[voxelMap[k]].position) = k

\* C5: in one gravity step a voxel whose cell directly below was occupied when
\* the step began keeps its position.
C5_SupportedStays ==
    [][lastOp'.op = "applyGravity" =>
         \A i \in 1..Len(voxels) :
            Occupied(Below(voxels[i].position)) =>
               voxels'[i].position = voxels[i].position]_vars

\* C8: a second placeVoxel call with the same cell changes neither the list, the
\* index nor the persisted data and has no side effect, and after a placeVoxel
\* call the list holds exactly one voxel at the cell, the one the index names.
C8_PlaceTwice ==
    /\ [][(pair'.stage = "placed" /\ pair'.again) =>
            (/\ voxels' = voxels
             /\ voxelMap' = voxelMap
             /\ storage' = storage
             /\ effects' = <<>>)]_vars
    /\ [](pair.stage = "placed" =>
            /\ Occupied(pair.pos)
            /\ VoxelsAt(pair.pos) = {voxelMap[getVoxelKey(pair.pos)]})

C8_Witness ==
    /\ pair.stage = "placed"
    /\ pair.again
    /\ pair.free = FALSE
    /\ effects = <<>>
    /\ Cardinality(VoxelsAt(pair.pos)) = 1
    /\ Len(voxels) = 2

\* C9 as first stated: placeVoxel(P) then removeVoxel(P) leaves the number of
\* occupied cells what it was before the pair, and P unoccupied.
C9_Original ==
    pair.stage = "removed" =>
        /\ Cardinality(DOMAIN voxelMap) = pair.n
        /\ ~Occupied(pair.pos)

\* C9: placeVoxel(P) then removeVoxel(P) leaves P unoccupied, and when P was
\* unoccupied before the pair the number of occupied cells and the list's
\* length are what they were before the pair.
C9_RoundTrip ==
    pair.stage = "removed" =>
        /\ ~Occupied(pair.pos)
        /\ pair.free =>
              /\ Cardinality(DOMAIN voxelMap) = pair.n
              /\ Len(voxels) = pair.len

C9_Witness ==
    /\ pair.stage = "removed"
    /\ pair.free
    /\ pair.n = 2
    /\ Cardinality(DOMAIN voxelMap) = 2

\* C10: the column of three with its bottom voxel removed holds, after two
\* gravity steps, the two other voxels at heights 0.5 and 1.5, each one cell
\* lower than it was built and in its own colour, and the index names them.
C10_Compacted ==
    stage = 7 =>
        LET rest == SelectSeq(snapshot, LAMBDA v : v.position # Bottom)
        IN  /\ Len(voxels) = 2
            /\ Len(rest) = 2
            /\ \A i \in 1..2 :
                  /\ voxels[i].color = rest[i].color
                  /\ voxels[i].position = Below(rest[i].position)
                  /\ Occupied(voxels[i].position)
                  /\ voxelMap[getVoxelKey(voxels[i].position)] = i
            /\ {voxels[i].position.y : i \in 1..2} = {500, 1500}
            /\ Cardinality(DOMAIN voxelMap) = 2

C10_Witness ==
    /\ stage = 7
    /\ Len(voxels) = 2
    /\ voxels[1].position.y = 1500
    /\ voxels[1].color # voxels[2].color

\* a call made by the dwell timer in the step just taken
DwellFired(calls) == \E i \in 1..Len(calls) : calls[i].by = "dwell"

\* C2: in two-hand mode a held trigger pinch fires exactly one action, a place
\* when the target cell was unoccupied at its start, however many frames it
\* lasts (30 and more); nothing else fires, so after a release and a second
\* pinch exactly two actions have fired.
C2_OnePerPinch ==
    /\ hold.len >= 1 =>
          /\ Len(hold.fired) = 1
          /\ hold.free => hold.fired = <<"place">>
    /\ hold.total = hold.holds

\* a pinch held for 30 frames placed one voxel; the pinch after it placed another
C2_Witness ==
    /\ hold.holds = 2
    /\ hold.prev = MaxHold
    /\ hold.total = 2
    /\ Len(voxels) = 2

\* C3: in one-hand mode over a stationary unoccupied cell the dwell timer
\* places exactly when a processed frame first sees DWELL_TIME ms elapsed
\* since the timer started: never earlier, never skipped, and once per cell.
C3_DwellOnce ==
    /\ [][/\ DwellFired(fired') =>
               /\ Len(fired') = 1
               /\ fired'[1].act = "place"
               /\ isDwelling
               /\ now' - dwellStartTime >= DWELL_TIME
               /\ lastVideoTime - dwellStartTime < DWELL_TIME
               /\ getVoxelKey(fired'[1].pos) \notin DOMAIN voxelMap
               /\ getVoxelKey(fired'[1].pos) \in DOMAIN voxelMap'
          /\ (isDwelling /\ frame'.processed /\ now' - dwellStartTime >= DWELL_TIME)
               => DwellFired(fired')]_vars
    /\ [](/\ hold.total = Len(voxels)
          /\ Cardinality(DOMAIN voxelMap) = Len(voxels))

\* the timer has placed one voxel and a later processed frame over that cell
\* fired nothing
C3_Witness ==
    /\ Len(voxels) = 1
    /\ hold.total = 1
    /\ frame.processed
    /\ frame.over
    /\ fired = <<>>

\* C4: after a processed frame that reports zero hands the dwell timer is off
\* and the pinch edge state is clear.
C4_ZeroHandsResets ==
    (frame.processed /\ frame.hands = 0) =>
        /\ ~isDwelling
        /\ ~wasPinching
        /\ ~blockPlacedThisPinch

\* C6 as stated: only a processed frame that detects the release clears the
\* consumed flag.
C6_Original ==
    [][(blockPlacedThisPinch /\ ~blockPlacedThisPinch')
          => (frame'.examined /\ ~frame'.pinch)]_vars

\* C6: the consumed flag is cleared only by a processed frame that detects the
\* release or that reports zero hands; between two such frames the pinch
\* fires at most one action, whatever the hand count and the mode.
C6_ConsumedUntilRelease ==
    /\ [][(blockPlacedThisPinch /\ ~blockPlacedThisPinch')
             => /\ frame'.processed
                /\ (frame'.examined /\ ~frame'.pinch) \/ frame'.hands = 0]_vars
    /\ [](Len(hold.fired) <= 1)

\* a pinch that fired in two-hand mode is still held, and still consumed, in a
\* one-hand frame over the voxel it placed
C6_Witness ==
    /\ hold.len >= 2
    /\ Len(hold.fired) = 1
    /\ blockPlacedThisPinch
    /\ frame.mode = "one"
    /\ frame.examined
    /\ frame.pinch

\* C7: in a processed frame that reports two or more hands the dwell timer
\* neither runs nor places.
C7_NoDwellWithTwoHands ==
    (frame.processed /\ frame.hands >= 2) =>
        /\ ~isDwelling
        /\ ~DwellFired(fired)

\* persisted data that is unparseable, not a list, or holds a malformed record
BadData(s) ==
    \/ s.kind \in {"garbage", "notlist"}
    \/ s.kind = "list" /\ \E i \in 1..Len(s.items) : ~s.items[i].ok

\* C11: loadMap on unparseable data, on data that is not a list or on a list
\* with a malformed record leaves the store empty or exactly as it was.
C11_LoadAllOrNothing ==
    [][(lastOp'.op = "loadMap" /\ BadData(storage)) =>
          \/ voxels' = <<>> /\ voxelMap' = <<>>
          \/ voxels' = voxels /\ voxelMap' = voxelMap]_vars

\* a call made by a pinch in the step just taken
PinchFired(calls) == \E i \in 1..Len(calls) : calls[i].by = "pinch"

\* the handler that just ran met a failing localStorage.setItem
SaveFailed == \E i \in 1..Len(effects) : effects[i] = "throw"

\* C12: when the write inside saveMap fails the handler still returns
\* normally, and the frame that fired the action still resets the dwell after
\* a dwell place, still records the pinch in wasPinching and still updates
\* the UI.
C12_SaveFailureSwallowed ==
    SaveFailed =>
        /\ \A i \in 1..Len(effects) : effects[i] # "uncaught"
        /\ DwellFired(fired) => ~isDwelling
        /\ PinchFired(fired) => wasPinching
        /\ frame.processed => frame.uiUpdated

\* what saveMap writes for a list of voxels
Persisted(list) ==
    [kind |-> "list",
     items |-> [i \in 1..Len(list) |-> Record(list[i].position, list[i].color)]]

\* C13: after every store operation that changed the list of voxels (a place,
\* a remove, a gravity step that moved a voxel) and after every clear, the
\* persisted record list is the whole current list: same positions, same
\* colours, same order.
C13_PersistedIsWholeList ==
    [][(\/ lastOp'.op = "clearScene"
        \/ /\ lastOp'.op \in {"placeVoxel", "removeVoxel", "applyGravity"}
           /\ voxels' # voxels)
          => storage' = Persisted(voxels')]_vars

\* a gravity step has just moved a lone voxel from height 2.5 to 1.5 and the
\* persisted list holds it at its new height
C13_Witness ==
    /\ lastOp.op = "applyGravity"
    /\ gravityEnabled
    /\ Len(voxels) = 1
    /\ Cardinality(DOMAIN voxelMap) = 1
    /\ voxels[1].position.y = 1500
    /\ storage = Persisted(voxels)

\* C14: the gravity step never runs in two consecutive rendered frames.
C14_GravityCadence ==
    [][(lastOp'.op = "animate" /\ frame.gravityRan /\ gravityEnabled)
          => ~frame'.gravityRan]_vars

\* C15: a place fired by a gesture targets the ghost cell, unoccupied in that
\* frame, and a remove the ghost cell, occupied in that frame; in two-hand
\* mode the rising edge of the trigger pinch fires the one or the other by the
\* occupancy of the ghost cell, and in one-hand mode over an occupied cell
\* nothing but a remove fires.
C15_ActionMatchesOccupancy ==
    [][lastOp'.op = "animate" =>
         /\ Len(fired') <= 1
         /\ \A i \in 1..Len(fired') :
               /\ fired'[i].pos = ghostPosition'
               /\ fired'[i].act = "place" =>
                     /\ getVoxelKey(fired'[i].pos) \notin DOMAIN voxelMap
                     /\ ~frame'.over
               /\ fired'[i].act = "remove" =>
                     /\ getVoxelKey(fired'[i].pos) \in DOMAIN voxelMap
                     /\ frame'.over
               /\ (frame'.mode = "one" /\ frame'.over) => fired'[i].act = "remove"
         /\ (frame'.mode = "two" /\ frame'.pinch /\ ~wasPinching /\ ~blockPlacedThisPinch)
               => fired' = <<[act |-> IF frame'.over THEN "remove" ELSE "place",
                              pos |-> ghostPosition', by |-> "pinch"]>>]_vars

\* a one-hand pinch over the only voxel has just removed it
C15_Witness ==
    /\ lastOp.op = "animate"
    /\ frame.mode = "one"
    /\ frame.over
    /\ fired = <<[act |-> "remove", pos |-> ghostPosition, by |-> "pinch"]>>
    /\ voxels = <<>>

\* C16: in a frame with a Right and a Left hand an action fires only when the
\* Left hand is detected pinching, and the pinch of a Left hand that has just
\* come into view fires whatever the Right hand has been doing.
C16_TriggerIndependent ==
    [][(lastOp'.op = "animate" /\ frame'.mode = "two") =>
          /\ fired' # <<>> => (PinchFired(fired') /\ debugPinchState'["Left"])
          /\ (~smoothers["Left"].seen /\ debugPinchState'["Left"]) => PinchFired(fired')]_vars

\* C17: a rendered frame whose video time is the last processed one leaves
\* the smoothers, the ghost, the pinch flags and the dwell state as they were
\* and fires nothing.
C17_StaleFrameSkipped ==
    [][(lastOp'.op = "animate" /\ ~frame'.fresh) =>
          /\ fired' = <<>>
          /\ UNCHANGED <<smoothers, debugPinchState, smoothedGhostPosition, ghostPosition,
                         ghostVisible, isPinching, wasPinching, blockPlacedThisPinch,
                         isDwelling, dwellStartTime, dwellPosition, dwellProgress,
                         lastVideoTime, detectedHandCount>>]_vars

\* a frame was skipped while a consumed pinch was held
C17_Witness ==
    /\ lastOp.op = "animate"
    /\ ~frame.fresh
    /\ wasPinching
    /\ blockPlacedThisPinch
    /\ smoothers["Left"].seen
    /\ ghostVisible

\* the cell centres of the grid on a horizontal axis and on the vertical axis
GridCentres ==
    {c * VOXEL_SIZE + VOXEL_SIZE \div 2 : c \in (-(GRID_SIZE \div 2))..(GRID_SIZE \div 2 - 1)}

HeightCentres == {c * VOXEL_SIZE + VOXEL_SIZE \div 2 : c \in 0..(maxHeight - 1)}

InGrid(p) == p.x \in GridCentres /\ p.y \in HeightCentres /\ p.z \in GridCentres

\* C18: after a processed frame with a hand the ghost is a cell centre inside
\* the grid and below the maximum height, wherever the cursor ray resolved,
\* and so is every voxel a gesture placed.
C18_GhostInGrid ==
    /\ (frame.processed /\ frame.hands >= 1) => InGrid(ghostPosition)
    /\ \A i \in 1..Len(voxels) : InGrid(voxels[i].position)
    /\ \A i \in 1..Len(fired) : InGrid(fired[i].pos)

\* the cursor resolved far outside the grid and the dwell placed a voxel in
\* the corner cell
C18_Witness ==
    /\ stage = 1
    /\ snapshot.x = 20000
    /\ snapshot.z = -20000
    /\ Len(voxels) = 1
    /\ voxels[1].position = Vec(4500, 500, -4500)
    /\ ghostPosition = Vec(4500, 500, -4500)

\* C19: snapToGrid applied to its own result returns it unchanged on all
\* three axes.
C19_SnapIdempotent ==
    [][(stage = 1 /\ stage' = 2) => snapshot' = snapshot]_vars

\* a position beyond a corner of the grid and above the maximum height was
\* snapped to the top corner cell, then snapped again
C19_Witness ==
    /\ stage = 2
    /\ snapshot = Vec(4500, 9500, -4500)

\* C20: a processed frame with zero hands leaves no smoother state for either
\* label, and a label without smoother state gets its next sample stored as
\* it came, not blended.
C20_FreshAfterLoss ==
    /\ []((frame.processed /\ frame.hands = 0) => smoothers = NoSmoothers)
    /\ [][(lastOp'.op = "animate" /\ frame'.processed) =>
             \A i \in 1..Len(snapshot') :
                ~smoothers[snapshot'[i].label].seen =>
                    smoothers'[snapshot'[i].label] =
                        [seen |-> TRUE, thumb |-> snapshot'[i].thumb,
                         index |-> snapshot'[i].index]]_vars

\* the Left hand pinched and placed, the hands were lost for a frame, and the
\* Left hand came back open: its smoother holds the open sample as it came
C20_Witness ==
    /\ now = 1500
    /\ Len(voxels) = 1
    /\ snapshot = <<Hand("Right", FALSE), Hand("Left", FALSE)>>
    /\ smoothers["Left"] = [seen |-> TRUE, thumb |-> 32, index |-> 20]
    /\ ~debugPinchState["Left"]

\* the candidate one grid unit from a voxel along a direction
Beside(hit, n) ==
    Vec(hit.x + (n.x * VOXEL_SIZE) \div 1000,
        hit.y + (n.y * VOXEL_SIZE) \div 1000,
        hit.z + (n.z * VOXEL_SIZE) \div 1000)

\* C21: a ray that hits a voxel on a side face at a local height above 0.3
\* gives the position one grid unit straight above the hit voxel; a side-face
\* hit at local height 0.3 or lower gives the position one grid unit from the
\* hit voxel along the face normal.
C21_TopEdgeMagnetism ==
    (stage = 1 /\ snapshot.ray.kind = "voxel" /\ Abs(snapshot.ray.normal.y) < 900) =>
        LET hit == voxels[snapshot.ray.index].position
        IN  snapshot.pos =
               IF snapshot.ray.localY > 300
               THEN [hit EXCEPT !.y = @ + VOXEL_SIZE]
               ELSE Beside(hit, snapshot.ray.normal)

\* the ray hit the east face of the ground voxel just above the threshold and
\* the candidate is the cell on top of it
C21_Witness ==
    /\ stage = 1
    /\ snapshot.ray.kind = "voxel"
    /\ snapshot.ray.normal = Vec(1000, 0, 0)
    /\ snapshot.ray.localY = 301
    /\ voxels[snapshot.ray.index].position = Vec(500, 500, 500)
    /\ snapshot.pos = Vec(500, 1500, 500)

\* the heights of the occupied cells of a column, among the 15 scanned
OccupiedHeights(gx, gz) ==
    {cy \in {i * VOXEL_SIZE + VOXEL_SIZE \div 2 : i \in 0..14} : Occupied(Vec(gx, cy, gz))}

\* C22: a ray that hits the floor in a column with an occupied cell gives the
\* cell one grid unit above the highest occupied cell of the column, gaps
\* below it or not; in a column without voxels it gives the floor point at
\* height half a cell.
C22_ColumnStacking ==
    (stage = 1 /\ snapshot.ray.kind = "floor") =>
        LET gx == (snapshot.ray.x \div VOXEL_SIZE) * VOXEL_SIZE + VOXEL_SIZE \div 2
            gz == (snapshot.ray.z \div VOXEL_SIZE) * VOXEL_SIZE + VOXEL_SIZE \div 2
            occ == OccupiedHeights(gx, gz)
        IN  IF occ # {}
            THEN \E top \in occ :
                    /\ \A cy \in occ : cy <= top
                    /\ snapshot.pos = Vec(gx, top + VOXEL_SIZE, gz)
            ELSE snapshot.pos = Vec(snapshot.ray.x, VOXEL_SIZE \div 2, snapshot.ray.z)

\* the column holds voxels at heights 0.5 and 2.5 with a gap between them and
\* the candidate is the cell at height 3.5
C22_Witness ==
    /\ stage = 1
    /\ snapshot.ray = [kind |-> "floor", x |-> 250, z |-> 300]
    /\ Len(voxels) = 2
    /\ Occupied(Vec(500, 500, 500))
    /\ ~Occupied(Vec(500, 1500, 500))
    /\ Occupied(Vec(500, 2500, 500))
    /\ snapshot.pos = Vec(500, 3500, 500)

C25_DwellFreshAfterTransition ==
    [][lastOp'.op = "animate" =>
         /\ (frame'.processed /\ detectedHandCount' = 1 /\ detectedHandCount # 1) =>
                /\ ~DwellFired(fired')
                /\ isDwelling' => dwellStartTime' = now'
         /\ DwellFired(fired') => dwellStartTime >= snapshot']_vars

\* a remove call made in the step just taken
RemoveFired(calls) == \E i \in 1..Len(calls) : calls[i].act = "remove"

\* C26: in a one-hand frame a remove fires only when the hand is detected
\* pinching in this frame and was not detected pinching in the processed
\* frame before it, over an occupied cell or not.
C26_RemoveOnRisingEdge ==
    [][(lastOp'.op = "animate" /\ frame'.mode = "one" /\ RemoveFired(fired')) =>
          \E l \in Labels :
             /\ debugPinchState'[l]
             /\ ~(detectedHandCount > 0 /\ debugPinchState[l])]_vars

\* C27: a gravity step leaves the list of voxels as long as it was and every
\* voxel at its place in the list with its x, z and colour, at the height it
\* had or exactly one grid unit lower.
C27_GravityMovesOneDown ==
    [][lastOp'.op = "applyGravity" =>
         /\ Len(voxels') = Len(voxels)
         /\ \A i \in 1..Len(voxels) :
               /\ voxels'[i].color = voxels[i].color
               /\ voxels'[i].position.x = voxels[i].position.x
               /\ voxels'[i].position.z = voxels[i].position.z
               /\ \/ voxels'[i].position.y = voxels[i].position.y
                  \/ voxels'[i].position.y = voxels[i].position.y - VOXEL_SIZE]_vars

\* a gravity step has just taken the first voxel from height 2.5 to 1.5, with
\* nothing below it, and left the second, on the ground in the next column
C27_Witness ==
    /\ lastOp.op = "applyGravity"
    /\ gravityEnabled
    /\ Len(voxels) = 2
    /\ voxels[1].position = Vec(500, 1500, 500)
    /\ voxels[2].position = Vec(-500, 500, 500)
    /\ voxels[1].color # voxels[2].color

\* C28: a rendered frame, processed or not, in any mode, makes at most one
\* placeVoxel or removeVoxel call.
C28_OneActionPerFrame ==
    lastOp.op = "animate" => Len(fired) <= 1

\* a two-hand frame over a voxel fired one remove and nothing else
C28_Witness ==
    /\ lastOp.op = "animate"
    /\ frame.processed
    /\ frame.mode = "two"
    /\ frame.over
    /\ Len(fired) = 1
    /\ fired[1].act = "remove"
    /\ voxels = <<>>

\* a processed one-hand frame over an unoccupied cell
DwellFrame(f) == f.processed /\ f.mode = "one" /\ ~f.over

\* C29: a one-hand frame over an unoccupied cell with the ghost outside the
\* tolerance of the anchor turns the dwell off, makes the ghost the anchor and
\* fires nothing; the next such frame with the ghost where it was starts the
\* timer at its own time; and a dwell place fires at the anchor, DWELL_TIME ms
\* or more after the timer started.
C29_ReanchorThenDwell ==
    [][lastOp'.op = "animate" =>
         /\ (DwellFrame(frame') /\ ~WithinTolerance(ghostPosition', dwellPosition)) =>
                /\ ~isDwelling'
                /\ dwellPosition' = ghostPosition'
                /\ fired' = <<>>
         /\ (/\ DwellFrame(frame)
             /\ ~isDwelling
             /\ dwellPosition = ghostPosition
             /\ DwellFrame(frame')
             /\ ghostPosition' = ghostPosition) =>
                /\ isDwelling'
                /\ dwellStartTime' = now'
                /\ fired' = <<>>
         /\ DwellFired(fired') =>
                /\ fired'[1].pos = dwellPosition
                /\ now' - dwellStartTime >= DWELL_TIME]_vars

\* the ghost left the cell of a running dwell, the dwell started again in the
\* next cell one frame after the ghost arrived, and placed there 1500 ms later
C29_Witness ==
    /\ lastOp.op = "animate"
    /\ DwellFired(fired)
    /\ now = 4000
    /\ dwellStartTime = 2500
    /\ Len(voxels) = 1
    /\ voxels[1].position = ghostPosition

\* every voxel of the list is at ground level or has a voxel of the list in
\* the cell directly below it
Settled ==
    \A i \in 1..Len(voxels) :
        \/ toFixed2(voxels[i].position.y) = toFixed2(VOXEL_SIZE \div 2)
        \/ VoxelsAt(Below(voxels[i].position)) # {}

\* a gravity step from here leaves the list and the index as they are
AtRest ==
    LET w == GravityFrom(World, 1)
    IN  w.voxels = voxels /\ w.voxelMap = voxelMap

\* the greatest number of cells a voxel of the list is above the ground cell
Drop(list) ==
    LET hs == {(list[i].position.y - VOXEL_SIZE \div 2) \div VOXEL_SIZE : i \in 1..Len(list)}
    IN  IF hs = {} THEN 0 ELSE CHOOSE h \in hs : \A k \in hs : k <= h

\* C30: with gravity on and nothing but gravity steps, after as many steps as
\* the highest voxel was cells above the ground every voxel is at ground level
\* or on top of another voxel, and every further step moves nothing.
C30_GravitySettles ==
    (stage >= 1 /\ stage - 1 >= Drop(snapshot)) => (Settled /\ AtRest)

\* a voxel that hung at height 2.5 over an empty column when gravity was
\* switched on has come to rest on the ground in two steps
C30_Witness ==
    /\ stage = 3
    /\ lastOp.op = "applyGravity"
    /\ Len(snapshot) = 1
    /\ snapshot[1].position = Vec(500, 2500, 500)
    /\ voxels[1].position = Vec(500, 500, 500)
    /\ Settled

\* every voxel of the list is on a cell centre of the grid, below the maximum
\* height, and no two of them are on the same one
OnDistinctCentres ==
    /\ \A i \in 1..Len(voxels) : InGrid(voxels[i].position)
    /\ \A i, j \in 1..Len(voxels) :
          i # j => voxels[i].position # voxels[j].position

RECURSIVE GravityBefore(_, _)
\* the store as voxel i of the gravity step finds it: voxels 1..i-1 visited
GravityBefore(w, i) ==
    IF i <= 1 THEN w ELSE GravityVisit(GravityBefore(w, i - 1), i - 1)

\* the visit of voxel i moves it into a cell another voxel of the list is in
\* at that moment
FallsOnto(w, i) ==
    LET before == GravityBefore(w, i)
        after == GravityVisit(before, i)
    IN  /\ after.voxels[i].position # before.voxels[i].position
        /\ \E j \in 1..Len(w.voxels) :
              /\ j # i
              /\ getVoxelKey(before.voxels[j].position)
                    = getVoxelKey(after.voxels[i].position)

\* C31: a gravity step from a store whose voxels are on distinct cell centres
\* of the grid moves no voxel into a cell another voxel is in and none below
\* ground level, and after it the index holds, for every voxel, the key of
\* the cell it is in, naming that voxel, and no other key.
C31_GravityKeepsCells ==
    [][(lastOp'.op = "applyGravity" /\ gravityEnabled /\ OnDistinctCentres) =>
         /\ \A i \in 1..Len(voxels) : ~FallsOnto(World, i)
         /\ \A i \in 1..Len(voxels') : voxels'[i].position.y >= VOXEL_SIZE \div 2
         /\ \A i \in 1..Len(voxels') :
               /\ getVoxelKey(voxels'[i].position) \in DOMAIN voxelMap'
               /\ voxelMap'[getVoxelKey(voxels'[i].position)] = i
         /\ \A k \in DOMAIN voxelMap' :
               \E i \in 1..Len(voxels') : getVoxelKey(voxels'[i].position) = k]_vars

====
